---- MODULE Spec2Model ----
(***************************************************************************)
(* Model of the RecipeGrocery meal planner: the ingredient normalizer      *)
(* (src/app.py: split_ingredient, get_category, fraction_formatter;        *)
(* src/measurement_converter.py: convert_to_fraction,                      *)
(* standardize_ingredient, generate_tags) and the per-user shopping list   *)
(* that the routes of src/app.py persist through the ORM; the loop of       *)
(* src/fetch_recipes.py that fills recipes.json from the recipe API.       *)
(*                                                                         *)
(* Python strings are TLA+ strings (TLC evaluates Len, \o and SubSeq on    *)
(* them); a character is a string of length 1.  Numbers are exact          *)
(* rationals <<n, d>> in lowest terms with d > 0, as fractions.Fraction    *)
(* keeps them.  A Python float is modelled by the rational it rounds:      *)
(* every amount the bounded inputs produce is far from a tie of            *)
(* limit_denominator, so the rounding does not change any result below.    *)
(***************************************************************************)
EXTENDS Integers, Sequences, FiniteSets, TLC

VARIABLES
    pc,               \* position of the call under test / of the request
    ingredient,       \* argument of split_ingredient / standardize_ingredient
    amount,           \* argument of convert_to_fraction / fraction_formatter
    max_denominator,  \* second argument of convert_to_fraction
    item_name,        \* argument of get_category
    ingredients,      \* argument of generate_tags (a list of lines)
    result,           \* the values returned so far, oldest first
    shopping_items,   \* the ShoppingItem table: its rows in insertion order
    ready_to_cook_ids,\* User.ready_to_cook_ids, per user
    view_count,       \* RecipeStats.view_count, per recipe
    additions,        \* history: every (user, name, unit, quantity) added
    total_recipes,    \* argument of save_recipes_to_file
    batch_size,       \* argument and local of save_recipes_to_file
    all_recipes,      \* its local: how many recipes the list holds
    remaining,        \* its local
    recipes,          \* its local: how many recipes the last fetch returned
    recipes_json      \* the file recipes.json: how many recipes it holds,
                      \* -1 when it is missing or is not JSON

\* the locals of save_recipes_to_file and the file it writes
fetchVars == <<total_recipes, batch_size, all_recipes, remaining, recipes,
               recipes_json>>

vars == <<pc, ingredient, amount, max_denominator, item_name, ingredients,
          result, shopping_items, ready_to_cook_ids, view_count, additions,
          total_recipes, batch_size, all_recipes, remaining, recipes,
          recipes_json>>

\* what the calls of the normalizer leave alone, and what the requests do
appVars == <<shopping_items, ready_to_cook_ids, view_count, additions,
             fetchVars>>
callVars == <<pc, ingredient, amount, max_denominator, item_name, ingredients,
              result, fetchVars>>

(***************************************************************************)
(* Bounds of the model.                                                    *)
(***************************************************************************)
MaxLen == 6          \* longest line given to split_ingredient
MaxNum == 40         \* largest numerator of an amount given to a renderer
MaxDenom == 18       \* largest denominator of such an amount
MaxBound == 9        \* largest max_denominator given to convert_to_fraction
MaxFragments == 2    \* most fragments in a name given to get_category
MaxIngredients == 2  \* most ingredients of the recipe given to generate_tags
MaxUsers == 2        \* registered users
MaxItems == 4        \* most rows ever inserted in the ShoppingItem table
MaxViews == 2        \* most views counted per recipe
MaxTotal == 4        \* largest total_recipes given to save_recipes_to_file
MaxBatch == 3        \* largest batch_size given to it
MaxExisting == 2     \* most recipes recipes.json holds before it runs

Users == 1..MaxUsers

\* recipes.json: the ingredient lines of each recipe, at original_index 0, 1, ...
Recipes ==
    << <<"2 cups sugar", "1/2 cup milk">>,
       <<"1 lb chicken breast", "1/2 cup milk", "salt">> >>

RecipeIds == 0..(Len(Recipes) - 1)

(***************************************************************************)
(* Python str primitives.                                                  *)
(***************************************************************************)
Char(s, i) == SubSeq(s, i, i)

Whitespace == {" "}

Digits == "0123456789"

IsDigit(c) == c \in {"0", "1", "2", "3", "4", "5", "6", "7", "8", "9"}

\* all strings over the characters of alphabet, of length at most n
RECURSIVE StrsUpTo(_, _)
StrsUpTo(alphabet, n) ==
    IF n = 0 THEN {""}
    ELSE LET S == StrsUpTo(alphabet, n - 1)
         IN  S \cup {s \o c : s \in S, c \in alphabet}

\* str.find(" ", from): index of the first space at or after from, 0 if none
RECURSIVE FindSpace(_, _)
FindSpace(s, from) ==
    IF from > Len(s) THEN 0
    ELSE IF Char(s, from) = " " THEN from
    ELSE FindSpace(s, from + 1)

\* s.split(" ") cut to three parts: a split at every space
Split2_every_space(s) ==
    LET i == FindSpace(s, 1)
        j == IF i = 0 THEN 0 ELSE FindSpace(s, i + 1)
        k == IF j = 0 THEN 0 ELSE FindSpace(s, j + 1)
    IN  IF i = 0 THEN <<s>>
        ELSE IF j = 0 THEN <<SubSeq(s, 1, i - 1), SubSeq(s, i + 1, Len(s))>>
        ELSE <<SubSeq(s, 1, i - 1), SubSeq(s, i + 1, j - 1),
               SubSeq(s, j + 1, IF k = 0 THEN Len(s) ELSE k - 1)>>

\* s.split(" ", 2): at most two splits, each at one single space
Split2(s) ==
    LET i == FindSpace(s, 1)
        j == IF i = 0 THEN 0 ELSE FindSpace(s, i + 1)
    IN  IF i = 0 THEN <<s>>
        ELSE IF j = 0 THEN <<SubSeq(s, 1, i - 1), SubSeq(s, i + 1, Len(s))>>
        ELSE <<SubSeq(s, 1, i - 1), SubSeq(s, i + 1, j - 1),
               SubSeq(s, j + 1, Len(s))>>

RECURSIVE LStrip(_)
LStrip(s) ==
    IF Len(s) > 0 /\ Char(s, 1) \in Whitespace
    THEN LStrip(SubSeq(s, 2, Len(s))) ELSE s

RECURSIVE RStrip(_)
RStrip(s) ==
    IF Len(s) > 0 /\ Char(s, Len(s)) \in Whitespace
    THEN RStrip(SubSeq(s, 1, Len(s) - 1)) ELSE s

\* s.strip()
Strip(s) == RStrip(LStrip(s))

(***************************************************************************)
(* fractions.Fraction: values in lowest terms, denominator > 0.            *)
(***************************************************************************)
Abs(n) == IF n < 0 THEN 0 - n ELSE n

RECURSIVE Gcd(_, _)
Gcd(a, b) == IF b = 0 THEN a ELSE Gcd(b, a % b)

\* a limit_denominator that returns the value unchanged
limit_denominator_unbounded(q, maxd) == q

\* Fraction(n, d) for d # 0
Frac(n, d) ==
    LET g == Gcd(Abs(n), Abs(d))
        s == IF d < 0 THEN 0 - 1 ELSE 1
    IN  <<(s * n) \div g, (s * d) \div g>>

Num(q) == q[1]
Den(q) == q[2]

\* the value of a string of decimal digits ("" is 0)
RECURSIVE DigitsVal(_)
DigitsVal(s) ==
    IF Len(s) = 0 THEN 0
    ELSE 10 * DigitsVal(SubSeq(s, 1, Len(s) - 1))
         + (CHOOSE k \in 0..9 : Char(Digits, k + 1) = Char(s, Len(s)))

RECURSIVE AllDigits(_)
AllDigits(s) ==
    Len(s) = 0 \/ (IsDigit(Char(s, 1)) /\ AllDigits(SubSeq(s, 2, Len(s))))

RECURSIVE Pow10(_)
Pow10(k) == IF k = 0 THEN 1 ELSE 10 * Pow10(k - 1)

\* index of the first occurrence of character c in s, 0 if none
RECURSIVE FindChar(_, _, _)
FindChar(s, c, from) ==
    IF from > Len(s) THEN 0
    ELSE IF Char(s, from) = c THEN from
    ELSE FindChar(s, c, from + 1)

(***************************************************************************)
(* Fraction(str): the constructor's pattern is an optional sign, then one   *)
(* of: digits; digits "/" digits; digits "." optional digits; "." digits.  *)
(* exc is "" on success, else the exception raised.  The exponent and      *)
(* underscore forms need characters no alphabet below contains.            *)
(***************************************************************************)
FractionOfStr(tok) ==
    LET signed == Len(tok) > 0 /\ Char(tok, 1) \in {"-", "+"}
        sgn    == IF signed /\ Char(tok, 1) = "-" THEN 0 - 1 ELSE 1
        body   == IF signed THEN SubSeq(tok, 2, Len(tok)) ELSE tok
        slash  == FindChar(body, "/", 1)
        point  == FindChar(body, ".", 1)
        starts == \/ (Len(body) >= 1 /\ IsDigit(Char(body, 1)))
                  \/ (Len(body) >= 2 /\ Char(body, 1) = "."
                        /\ IsDigit(Char(body, 2)))
        bad    == [exc |-> "ValueError", val |-> <<0, 1>>]
    IN  IF ~starts THEN bad
        ELSE IF slash > 0 THEN
            LET n == SubSeq(body, 1, slash - 1)
                d == SubSeq(body, slash + 1, Len(body))
            IN  IF ~(AllDigits(n) /\ AllDigits(d) /\ Len(d) > 0) THEN bad
                ELSE IF DigitsVal(d) = 0
                THEN [exc |-> "ZeroDivisionError", val |-> <<0, 1>>]
                ELSE [exc |-> "", val |-> Frac(sgn * DigitsVal(n), DigitsVal(d))]
        ELSE IF point > 0 THEN
            LET n == SubSeq(body, 1, point - 1)
                f == SubSeq(body, point + 1, Len(body))
            IN  IF ~(AllDigits(n) /\ AllDigits(f)) THEN bad
                ELSE [exc |-> "",
                      val |-> Frac(sgn * (DigitsVal(n) * Pow10(Len(f)) + DigitsVal(f)),
                                   Pow10(Len(f)))]
        ELSE IF AllDigits(body)
        THEN [exc |-> "", val |-> <<sgn * DigitsVal(body), 1>>]
        ELSE bad

(***************************************************************************)
(* split_ingredient (src/app.py).  float(Fraction(..)) is the rational.    *)
(* The bare except turns every failure into the "pcs" fallback.            *)
(***************************************************************************)
\* a split_ingredient whose fallbacks carry the amount 0
split_ingredient_zero_default(ing) ==
    LET parts == Split2(ing)
    IN  IF Len(parts) < 3 THEN <<(<<0, 1>>), "", ing>>
        ELSE LET f == FractionOfStr(parts[1])
             IN  IF f.exc = ""
                 THEN <<f.val, Strip(parts[2]), Strip(parts[3])>>
                 ELSE <<(<<0, 1>>), "pcs", ing>>

split_ingredient(ing) ==
    LET parts == Split2(ing)
    IN  IF Len(parts) < 3 THEN <<(<<1, 1>>), "", ing>>
        ELSE LET f == FractionOfStr(parts[1])
             IN  IF f.exc = ""
                 THEN <<f.val, Strip(parts[2]), Strip(parts[3])>>
                 ELSE <<(<<1, 1>>), "pcs", ing>>

(***************************************************************************)
(* Calls of split_ingredient on every line over SplitAlphabet.             *)
(***************************************************************************)
SplitAlphabet == {"0", "1", "/", ".", "-", " ", "a"}

\* save_recipes_to_file is not running: fetch_recipes.py is a script of its
\* own, and app.py only reads the file it leaves
NotFetching ==
    /\ total_recipes = 0
    /\ batch_size = 0
    /\ all_recipes = 0
    /\ remaining = 0
    /\ recipes = 0
    /\ recipes_json = Len(Recipes)

\* the database before any request
NoRequests ==
    /\ shopping_items = <<>>
    /\ ready_to_cook_ids = [u \in Users |-> <<>>]
    /\ view_count = [r \in RecipeIds |-> 0]
    /\ additions = <<>>

Idle ==
    /\ amount = <<0, 1>>
    /\ max_denominator = 1
    /\ item_name = ""
    /\ ingredients = <<>>
    /\ NoRequests
    /\ NotFetching

InitSplit ==
    /\ pc = "call"
    /\ ingredient \in StrsUpTo(SplitAlphabet, MaxLen)
    /\ result = <<>>
    /\ Idle

CallSplit ==
    /\ pc = "call"
    /\ result' = <<split_ingredient(ingredient)>>
    /\ pc' = "returned"
    /\ UNCHANGED <<ingredient, amount, max_denominator, item_name, ingredients,
                   appVars>>

NextSplit == CallSplit

SpecSplit == InitSplit /\ [][NextSplit]_vars

(***************************************************************************)
(* str(int) and str(Fraction).                                             *)
(***************************************************************************)
RECURSIVE NatToStr(_)
NatToStr(n) ==
    IF n < 10 THEN Char(Digits, n + 1)
    ELSE NatToStr(n \div 10) \o Char(Digits, (n % 10) + 1)

IntToStr(n) == IF n < 0 THEN "-" \o NatToStr(0 - n) ELSE NatToStr(n)

FractionToStr(q) ==
    IF Den(q) = 1 THEN IntToStr(Num(q))
    ELSE IntToStr(Num(q)) \o "/" \o IntToStr(Den(q))

\* |a - b| <= |c - b| for rationals a, b, c
CloserOrEqual(a, b, c) ==
    Abs(Num(a) * Den(b) - Num(b) * Den(a)) * Den(c)
        <= Abs(Num(c) * Den(b) - Num(b) * Den(c)) * Den(a)

(***************************************************************************)
(* Fraction.limit_denominator: the loop over the continued-fraction        *)
(* convergents, then the choice between the two bounds.                    *)
(***************************************************************************)
RECURSIVE Convergents(_, _, _, _, _, _, _)
Convergents(p0, q0, p1, q1, n, d, maxd) ==
    LET a  == n \div d
        q2 == q0 + a * q1
    IN  IF q2 > maxd THEN <<p0, q0, p1, q1>>
        ELSE Convergents(p1, q1, p0 + a * p1, q2, d, n - a * d, maxd)

limit_denominator(q, maxd) ==
    IF Den(q) <= maxd THEN q
    ELSE LET c  == Convergents(0, 1, 1, 0, Num(q), Den(q), maxd)
             k  == (maxd - c[2]) \div c[4]
             bound1 == Frac(c[1] + k * c[3], c[2] + k * c[4])
             bound2 == Frac(c[3], c[4])
         IN  IF CloserOrEqual(bound2, q, bound1) THEN bound2 ELSE bound1

\* the amount None and the object Ellipsis (the value of the token "..."),
\* kept apart from every rational (whose denominator is > 0)
None == <<0, 0>>
Ellipsis == <<1, 0>>

Return(v) == [exc |-> "", val |-> v]
Raise(e) == [exc |-> e, val |-> ""]

(***************************************************************************)
(* convert_to_fraction (src/measurement_converter.py).  Fraction(None)     *)
(* raises TypeError, which the except clause does not name.                *)
(***************************************************************************)
DefaultMaxDenominator == 16

convert_to_fraction(amt, maxd) ==
    IF amt \in {None, Ellipsis} THEN Raise("TypeError")
    ELSE LET fraction == limit_denominator(amt, maxd)
         IN  IF Den(fraction) = 1 THEN Return(IntToStr(Num(fraction)))
             ELSE IF Num(fraction) > Den(fraction) THEN
                 LET whole_number == Num(fraction) \div Den(fraction)
                     remainder    == Num(fraction) % Den(fraction)
                 IN  IF remainder = 0 THEN Return(IntToStr(whole_number))
                     ELSE Return(IntToStr(whole_number) \o " "
                                 \o FractionToStr(Frac(remainder, Den(fraction))))
             ELSE Return(FractionToStr(fraction))

(***************************************************************************)
(* fraction_formatter (src/app.py), the "fraction" template filter.        *)
(***************************************************************************)
FilterMaxDenominator == 8

fraction_formatter(amt) ==
    IF amt = None \/ Num(amt) = 0 THEN Return("")
    ELSE LET fraction == limit_denominator(amt, FilterMaxDenominator)
         IN  IF Den(fraction) = 1 THEN Return(IntToStr(Num(fraction)))
             ELSE IF Num(fraction) > Den(fraction) THEN
                 LET whole     == Num(fraction) \div Den(fraction)
                     remainder == Num(fraction) % Den(fraction)
                 IN  Return(IntToStr(whole) \o " "
                            \o FractionToStr(Frac(remainder, Den(fraction))))
             ELSE Return(FractionToStr(fraction))

(***************************************************************************)
(* Calls of the two renderers on every amount n/d within the bounds, and   *)
(* on None.                                                                *)
(***************************************************************************)
Amounts ==
    {Frac(n, d) : n \in (0 - MaxNum)..MaxNum, d \in 1..MaxDenom} \cup {None}

InitFrac ==
    /\ pc = "call"
    /\ amount \in Amounts
    /\ max_denominator \in 1..MaxBound
    /\ result = <<>>
    /\ ingredient = ""
    /\ item_name = ""
    /\ ingredients = <<>>
    /\ NoRequests
    /\ NotFetching

CallConvert ==
    /\ pc = "call"
    /\ result' = <<convert_to_fraction(amount, max_denominator)>>
    /\ pc' = "convert_to_fraction"
    /\ UNCHANGED <<ingredient, amount, max_denominator, item_name, ingredients,
                   appVars>>

CallFormatter ==
    /\ pc = "call"
    /\ result' = <<fraction_formatter(amount)>>
    /\ pc' = "fraction_formatter"
    /\ UNCHANGED <<ingredient, amount, max_denominator, item_name, ingredients,
                   appVars>>

NextFrac == CallConvert \/ CallFormatter

SpecFrac == InitFrac /\ [][NextFrac]_vars

(***************************************************************************)
(* Reading a line and a rendered amount without the code's own helpers.    *)
(***************************************************************************)
Spaces(s) == {i \in 1..Len(s) : Char(s, i) = " "}

FirstSpace(s) == CHOOSE i \in Spaces(s) : \A k \in Spaces(s) : i <= k

SecondSpace(s) ==
    CHOOSE j \in Spaces(s) \ {FirstSpace(s)} :
        \A k \in Spaces(s) \ {FirstSpace(s)} : j <= k

ThreeSegments(s) == Cardinality(Spaces(s)) >= 2

AmountToken(s) == SubSeq(s, 1, FirstSpace(s) - 1)
UnitToken(s) == SubSeq(s, FirstSpace(s) + 1, SecondSpace(s) - 1)
RestOfLine(s) == SubSeq(s, SecondSpace(s) + 1, Len(s))

Trimmed(s) ==
    Len(s) = 0 \/ (Char(s, 1) # " " /\ Char(s, Len(s)) # " ")

OnlyDigits(t) == \A i \in 1..Len(t) : IsDigit(Char(t, i))

\* plain integers, decimals and simple fractions n/d with d # 0
IsIntToken(t) == Len(t) > 0 /\ OnlyDigits(t)

IsDecimalToken(t) ==
    /\ Len(t) >= 2
    /\ \E i \in 1..Len(t) :
          /\ Char(t, i) = "."
          /\ OnlyDigits(SubSeq(t, 1, i - 1))
          /\ OnlyDigits(SubSeq(t, i + 1, Len(t)))

IsFractionToken(t) ==
    \E i \in 2..(Len(t) - 1) :
        /\ Char(t, i) = "/"
        /\ OnlyDigits(SubSeq(t, 1, i - 1))
        /\ OnlyDigits(SubSeq(t, i + 1, Len(t)))
        /\ DigitsVal(SubSeq(t, i + 1, Len(t))) # 0

IsPlainNumber(t) == IsIntToken(t) \/ IsDecimalToken(t) \/ IsFractionToken(t)

IsNumberToken(t) ==
    \/ IsPlainNumber(t)
    \/ Len(t) > 0 /\ Char(t, 1) \in {"-", "+"}
          /\ IsPlainNumber(SubSeq(t, 2, Len(t)))

Unparsable(s) == ~ThreeSegments(s) \/ ~IsNumberToken(AmountToken(s))

Returned == pc = "returned" /\ Len(result) = 1

\* C3: when split_ingredient cannot parse the line (fewer than three
\* segments, or an amount token that is no integer, decimal or fraction), it
\* returns the positive default amount 1 and the whole original line as name.
C3_FallbackKeepsItem ==
    (Returned /\ Unparsable(ingredient))
        => /\ result[1][1] = <<1, 1>>
           /\ result[1][3] = ingredient
           /\ result[1][2] \in {"", "pcs"}

C3_Witness ==
    /\ Returned
    /\ ThreeSegments(ingredient)
    /\ AmountToken(ingredient) = "1/0"
    /\ result[1] = <<(<<1, 1>>), "pcs", ingredient>>

\* C4 as claimed: for every line, the triple split_ingredient returns has a
\* non-negative amount and a unit and a name without surrounding whitespace.
C4_NonNegativeTrimmed ==
    Returned
        => /\ Num(result[1][1]) >= 0
           /\ Trimmed(result[1][2])
           /\ Trimmed(result[1][3])

\* the rational a well-formed amount token denotes
TokenValue(t) ==
    IF IsIntToken(t) THEN <<DigitsVal(t), 1>>
    ELSE IF IsFractionToken(t)
    THEN LET i == CHOOSE k \in 1..Len(t) : Char(t, k) = "/"
         IN  Frac(DigitsVal(SubSeq(t, 1, i - 1)),
                  DigitsVal(SubSeq(t, i + 1, Len(t))))
    ELSE LET i == CHOOSE k \in 1..Len(t) : Char(t, k) = "."
             k == Len(t) - i
         IN  Frac(DigitsVal(SubSeq(t, 1, i - 1)) * Pow10(k)
                    + DigitsVal(SubSeq(t, i + 1, Len(t))), Pow10(k))

WellFormed(s) ==
    /\ ThreeSegments(s)
    /\ IsPlainNumber(AmountToken(s))

\* C5: for a line "<amount> <unit> <name>" whose amount is a plain integer, a
\* decimal or a fraction n/d with d # 0, split_ingredient returns the value of
\* the amount, the unit, and as name all the text after the second space
\* (the triple's name is that text stripped, so a name written without
\* surrounding spaces is returned exactly).
C5_SplitsOnFirstTwoSpaces ==
    (Returned /\ WellFormed(ingredient))
        => /\ result[1][1] = TokenValue(AmountToken(ingredient))
           /\ result[1][2] = UnitToken(ingredient)
           /\ Trimmed(RestOfLine(ingredient))
                => result[1][3] = RestOfLine(ingredient)
           /\ \E i, j \in 0..Len(RestOfLine(ingredient)) :
                /\ result[1][3] = SubSeq(RestOfLine(ingredient), i + 1, j)
                /\ \A k \in (1..i) \cup ((j + 1)..Len(RestOfLine(ingredient))) :
                      Char(RestOfLine(ingredient), k) = " "
                /\ Trimmed(result[1][3])

C5_Witness ==
    /\ Returned
    /\ WellFormed(ingredient)
    /\ Len(RestOfLine(ingredient)) >= 3
    /\ Spaces(RestOfLine(ingredient)) # {}
    /\ Trimmed(RestOfLine(ingredient))
    /\ result[1] = <<TokenValue(AmountToken(ingredient)), "",
                     RestOfLine(ingredient)>>

(***************************************************************************)
(* Reading a rendered amount: whole "w", fraction "n/d", mixed "w n/d".    *)
(***************************************************************************)
PrintedDenominator(s) ==
    IF \E i \in 1..Len(s) : Char(s, i) = "/"
    THEN LET i == CHOOSE k \in 1..Len(s) : Char(s, k) = "/"
         IN  DigitsVal(SubSeq(s, i + 1, Len(s)))
    ELSE 1

IsWholeStr(s) == IsIntToken(s)

\* "n/d" with digits on both sides and d > 0
IsFractionStr(s) ==
    \E i \in 2..(Len(s) - 1) :
        /\ Char(s, i) = "/"
        /\ IsIntToken(SubSeq(s, 1, i - 1))
        /\ IsIntToken(SubSeq(s, i + 1, Len(s)))
        /\ DigitsVal(SubSeq(s, i + 1, Len(s))) > 0

IsProperStr(s) ==
    /\ IsFractionStr(s)
    /\ LET i == CHOOSE k \in 1..Len(s) : Char(s, k) = "/"
       IN  DigitsVal(SubSeq(s, 1, i - 1)) < DigitsVal(SubSeq(s, i + 1, Len(s)))

IsMixedStr(s) ==
    \E i \in 2..(Len(s) - 1) :
        /\ Char(s, i) = " "
        /\ IsIntToken(SubSeq(s, 1, i - 1))
        /\ DigitsVal(SubSeq(s, 1, i - 1)) >= 1
        /\ IsProperStr(SubSeq(s, i + 1, Len(s)))

\* the string without its leading minus sign, if it has one
Unsigned(s) ==
    IF Len(s) > 0 /\ Char(s, 1) = "-" THEN SubSeq(s, 2, Len(s)) ELSE s

Rendered == pc \in {"convert_to_fraction", "fraction_formatter"} /\ Len(result) = 1

\* C6 as claimed: the rendering of a zero or absent amount is "1" or "",
\* never the literal "0", by fraction_formatter and by convert_to_fraction.
C6_ZeroNeverRendersZero ==
    (Rendered /\ (amount = None \/ Num(amount) = 0))
        => /\ result[1].val # "0"
           /\ result[1].exc = "" => result[1].val \in {"1", ""}

UpperCase == "ABCDEFGHIJKLMNOPQRSTUVWXYZ"
LowerCase == "abcdefghijklmnopqrstuvwxyz"

LowerChar(c) ==
    IF \E k \in 1..26 : Char(UpperCase, k) = c
    THEN Char(LowerCase, CHOOSE k \in 1..26 : Char(UpperCase, k) = c)
    ELSE c

\* s.lower()
RECURSIVE Lower(_)
Lower(s) ==
    IF Len(s) = 0 THEN ""
    ELSE LowerChar(Char(s, 1)) \o Lower(SubSeq(s, 2, Len(s)))

\* kw in s
Contains(s, kw) ==
    \E i \in 1..(Len(s) - Len(kw) + 1) : SubSeq(s, i, i + Len(kw) - 1) = kw

\* the table in alphabetical order of its category names
categories_sorted ==
    << <<"Dairy/Refrigerated",
         {"milk", "cheese", "butter", "eggs", "yogurt", "cream"}>>,
       <<"Frozen", {"frozen", "ice cream", "pizza"}>>,
       <<"Meat/Seafood",
         {"chicken", "beef", "pork", "shrimp", "salmon", "steak", "bacon"}>>,
       <<"Pantry",
         {"flour", "sugar", "salt", "pepper", "oil", "pasta", "syrup",
          "vinegar"}>>,
       <<"Produce",
         {"apple", "onion", "garlic", "spinach", "tomato", "potato", "carrot",
          "lime", "lemon", "herb"}>> >>

\* the dict literal, in insertion order
categories ==
    << <<"Produce",
         {"apple", "onion", "garlic", "spinach", "tomato", "potato", "carrot",
          "lime", "lemon", "herb"}>>,
       <<"Meat/Seafood",
         {"chicken", "beef", "pork", "shrimp", "salmon", "steak", "bacon"}>>,
       <<"Dairy/Refrigerated",
         {"milk", "cheese", "butter", "eggs", "yogurt", "cream"}>>,
       <<"Pantry",
         {"flour", "sugar", "salt", "pepper", "oil", "pasta", "syrup",
          "vinegar"}>>,
       <<"Frozen", {"frozen", "ice cream", "pizza"}>> >>

\* the for loop over categories.items(), from entry k on
RECURSIVE CategoryFrom(_, _)
CategoryFrom(name, k) ==
    IF k > Len(categories) THEN "Other"
    ELSE IF \E kw \in categories[k][2] : Contains(name, kw)
    THEN categories[k][1]
    ELSE CategoryFrom(name, k + 1)

get_category(name) == CategoryFrom(Lower(name), 1)

(***************************************************************************)
(* Calls of get_category on names put together from at most MaxFragments   *)
(* fragments: keywords of every category, parts of keywords, other text.   *)
(***************************************************************************)
Fragments ==
    {"onion", "Garlic ", "herb", "chicken", "bacon", "eggs", "egg", "butter",
     "cream", "ice cream", "ice ", "oil", "pepper", "frozen", "pizza",
     "tofu", "s", " "}

RECURSIVE NamesUpTo(_)
NamesUpTo(n) ==
    IF n = 0 THEN {""}
    ELSE LET S == NamesUpTo(n - 1)
         IN  S \cup {s \o f : s \in S, f \in Fragments}

InitCategory ==
    /\ pc = "call"
    /\ item_name \in NamesUpTo(MaxFragments)
    /\ result = <<>>
    /\ ingredient = ""
    /\ amount = <<0, 1>>
    /\ max_denominator = 1
    /\ ingredients = <<>>
    /\ NoRequests
    /\ NotFetching

CallCategory ==
    /\ pc = "call"
    /\ result' = <<get_category(item_name)>>
    /\ pc' = "get_category"
    /\ UNCHANGED <<ingredient, amount, max_denominator, item_name, ingredients,
                   appVars>>

NextCategory == CallCategory

SpecCategory == InitCategory /\ [][NextCategory]_vars

(***************************************************************************)
(* The contract of get_category, stated on the table read as a set.        *)
(***************************************************************************)
TableOrder ==
    <<"Produce", "Meat/Seafood", "Dairy/Refrigerated", "Pantry", "Frozen">>

KeywordsOf(c) ==
    UNION {categories[k][2] : k \in {j \in 1..Len(categories) : categories[j][1] = c}}

\* some keyword of category c occurs in the lower-cased name
Matches(name, c) ==
    \E kw \in KeywordsOf(c) :
        \E i \in 1..Len(name) :
            /\ i + Len(kw) - 1 <= Len(name)
            /\ \A k \in 1..Len(kw) :
                  LowerChar(Char(name, i + k - 1)) = Char(kw, k)

\* C8: get_category returns the first category, in the order Produce,
\* Meat/Seafood, Dairy/Refrigerated, Pantry, Frozen, one of whose keywords is
\* a substring of the lower-cased name, and Other when none matches; the
\* result is one of the six categories.
C8_FirstMatchingCategory ==
    pc = "get_category"
        => /\ result[1] \in {TableOrder[k] : k \in 1..5} \cup {"Other"}
           /\ (\A k \in 1..5 : ~Matches(item_name, TableOrder[k]))
                 => result[1] = "Other"
           /\ \A k \in 1..5 :
                 (/\ Matches(item_name, TableOrder[k])
                  /\ \A j \in 1..(k - 1) : ~Matches(item_name, TableOrder[j]))
                     => result[1] = TableOrder[k]

\* a name matching keywords of two categories gets the earlier one
C8_Witness ==
    /\ pc = "get_category"
    /\ item_name = "Garlic butter"
    /\ Matches(item_name, "Produce")
    /\ Matches(item_name, "Dairy/Refrigerated")
    /\ result[1] = "Produce"

(***************************************************************************)
(* eval(parts[0]) (src/measurement_converter.py), for a token written      *)
(* with digits, letters, "." and "/": Python's tokens (number, name, the    *)
(* operators / // .), its grammar  operand (op operand)...  where an        *)
(* operand is a number or a name followed by attribute references, and     *)
(* its left-to-right evaluation.  A syntax error is found before anything  *)
(* is evaluated.  No name written with the letters of the alphabets below  *)
(* is bound (NameError), and no number has an attribute so named           *)
(* (AttributeError); "..." is the object Ellipsis, no operand of / or //   *)
(* (TypeError).                                                            *)
(***************************************************************************)
IsLetter(c) ==
    \E k \in 1..26 : Char(UpperCase, k) = c \/ Char(LowerCase, k) = c

IsWordChar(c) == IsLetter(c) \/ IsDigit(c) \/ c = "_"

\* first index at or after i whose character is no digit
RECURSIVE DigitsEnd(_, _)
DigitsEnd(s, i) ==
    IF i <= Len(s) /\ IsDigit(Char(s, i)) THEN DigitsEnd(s, i + 1) ELSE i

\* first index at or after i whose character is no octal digit
RECURSIVE OctalEnd(_, _)
OctalEnd(s, i) ==
    IF i <= Len(s) /\ Char(s, i) \in {"0", "1", "2", "3", "4", "5", "6", "7"}
    THEN OctalEnd(s, i + 1) ELSE i

RECURSIVE WordEnd(_, _)
WordEnd(s, i) ==
    IF i <= Len(s) /\ IsWordChar(Char(s, i)) THEN WordEnd(s, i + 1) ELSE i

RECURSIVE OctalVal(_)
OctalVal(s) ==
    IF Len(s) = 0 THEN 0
    ELSE 8 * OctalVal(SubSeq(s, 1, Len(s) - 1)) + DigitsVal(Char(s, Len(s)))

NumTok(v) == [t |-> "num", v |-> v]
OpTok(o) == [t |-> o, v |-> <<0, 1>>]
BadTok == OpTok("bad")

\* the number literal starting at i: <<token, index after it>>
LexNumber(s, i) ==
    LET j == DigitsEnd(s, i)
    IN  IF /\ Char(s, i) = "0" /\ j = i + 1 /\ j <= Len(s)
           /\ Char(s, j) \in {"o", "O"}
        THEN LET k == OctalEnd(s, j + 1)
             IN  IF k = j + 1 THEN <<BadTok, k>>
                 ELSE <<NumTok(<<OctalVal(SubSeq(s, j + 1, k - 1)), 1>>), k>>
        ELSE IF j <= Len(s) /\ Char(s, j) = "."
        THEN LET k == DigitsEnd(s, j + 1)
                 f == SubSeq(s, j + 1, k - 1)
             IN  <<NumTok(Frac(DigitsVal(SubSeq(s, i, j - 1)) * Pow10(Len(f))
                                 + DigitsVal(f), Pow10(Len(f)))), k>>
        ELSE IF j - i > 1 /\ Char(s, i) = "0" /\ DigitsVal(SubSeq(s, i, j - 1)) # 0
        THEN <<BadTok, j>>
        ELSE <<NumTok(<<DigitsVal(SubSeq(s, i, j - 1)), 1>>), j>>

\* the tokens of s from index i on
RECURSIVE Lex(_, _)
Lex(s, i) ==
    IF i > Len(s) THEN <<>>
    ELSE LET c == Char(s, i)
             n == IF i < Len(s) THEN Char(s, i + 1) ELSE ""
         IN  IF IsDigit(c) \/ (c = "." /\ IsDigit(n))
             THEN LET r == LexNumber(s, i)
                  IN  IF r[2] <= Len(s) /\ IsWordChar(Char(s, r[2]))
                      THEN <<BadTok>>
                      ELSE <<r[1]>> \o Lex(s, r[2])
             ELSE IF IsLetter(c) \/ c = "_"
             THEN <<OpTok("name")>> \o Lex(s, WordEnd(s, i))
             ELSE IF i + 2 <= Len(s) /\ SubSeq(s, i, i + 2) = "..."
             THEN <<NumTok(Ellipsis)>> \o Lex(s, i + 3)
             ELSE IF c = "/" /\ n = "/" THEN <<OpTok("//")>> \o Lex(s, i + 2)
             ELSE IF c = "/" THEN <<OpTok("/")>> \o Lex(s, i + 1)
             ELSE IF c = "." THEN <<OpTok(".")>> \o Lex(s, i + 1)
             ELSE <<BadTok>>

\* the grammar: st is "operand" (one must follow), "after" (an operand has
\* ended), "attr" (a name must follow the point)
RECURSIVE Grammatical(_, _, _)
Grammatical(T, i, st) ==
    IF i > Len(T) THEN st = "after"
    ELSE LET t == T[i].t
         IN  CASE st = "operand" ->
                    t \in {"num", "name"} /\ Grammatical(T, i + 1, "after")
               [] st = "attr" ->
                    t = "name" /\ Grammatical(T, i + 1, "after")
               [] OTHER ->
                    \/ t \in {"/", "//"} /\ Grammatical(T, i + 1, "operand")
                    \/ t = "." /\ Grammatical(T, i + 1, "attr")

\* number of attribute references that follow the operand at i
RECURSIVE Trailers(_, _)
Trailers(T, i) ==
    IF i + 1 <= Len(T) /\ T[i + 1].t = "." THEN 1 + Trailers(T, i + 2) ELSE 0

\* the operator // on exact rationals. Python floors the quotient of the
\* binary floats, which differs from this where an operand such as .1 has no
\* exact binary form (1//.1 is 9.0); such tokens need five characters and lie
\* outside the lines enumerated by InitStandardize.
Floor(q) == <<Num(q) \div Den(q), 1>>

\* evaluation from the operand at i, acc being the value so far and op the
\* pending operator ("" at the first operand)
RECURSIVE Evaluate(_, _, _, _)
Evaluate(T, i, acc, op) ==
    LET k    == Trailers(T, i)
        v    == T[i].v
        next == i + 1 + 2 * k
    IN  IF T[i].t = "name" THEN [exc |-> "NameError", val |-> <<0, 1>>]
        ELSE IF k > 0 THEN [exc |-> "AttributeError", val |-> <<0, 1>>]
        ELSE IF op # "" /\ Ellipsis \in {acc, v}
        THEN [exc |-> "TypeError", val |-> <<0, 1>>]
        ELSE IF op # "" /\ Num(v) = 0
        THEN [exc |-> "ZeroDivisionError", val |-> <<0, 1>>]
        ELSE LET q   == Frac(Num(acc) * Den(v), Den(acc) * Num(v))
                 new == IF op = "" THEN v
                        ELSE IF op = "/" THEN q
                        ELSE Floor(q)
             IN  IF next > Len(T) THEN [exc |-> "", val |-> new]
                 ELSE Evaluate(T, next + 1, new, T[next].t)

PyEval(tok) ==
    LET T == Lex(tok, 1)
    IN  IF (\E i \in 1..Len(T) : T[i].t = "bad") \/ ~Grammatical(T, 1, "operand")
        THEN [exc |-> "SyntaxError", val |-> <<0, 1>>]
        ELSE Evaluate(T, 1, <<0, 1>>, "")

(***************************************************************************)
(* The three re.sub calls of standardize_ingredient.                       *)
(***************************************************************************)
\* re.sub(r"\bof\b", "", s), from index i on
RECURSIVE RemoveOf(_, _)
RemoveOf(s, i) ==
    IF i > Len(s) THEN ""
    ELSE IF /\ i + 1 <= Len(s)
            /\ SubSeq(s, i, i + 1) = "of"
            /\ (i = 1 \/ ~IsWordChar(Char(s, i - 1)))
            /\ (i + 2 > Len(s) \/ ~IsWordChar(Char(s, i + 2)))
    THEN RemoveOf(s, i + 2)
    ELSE Char(s, i) \o RemoveOf(s, i + 1)

\* re.sub(r"[^\w\s]", "", s)
RECURSIVE RemovePunctuation(_)
RemovePunctuation(s) ==
    IF Len(s) = 0 THEN ""
    ELSE (IF IsWordChar(Char(s, 1)) \/ Char(s, 1) \in Whitespace
          THEN Char(s, 1) ELSE "")
         \o RemovePunctuation(SubSeq(s, 2, Len(s)))

\* re.sub(r"\s{2,}", " ", s)
RECURSIVE CollapseSpaces(_)
CollapseSpaces(s) ==
    IF Len(s) = 0 THEN ""
    ELSE IF Char(s, 1) \in Whitespace
    THEN LET rest == LStrip(s)
         IN  (IF Len(s) - Len(rest) >= 2 THEN " " ELSE Char(s, 1))
             \o CollapseSpaces(rest)
    ELSE Char(s, 1) \o CollapseSpaces(SubSeq(s, 2, Len(s)))

(***************************************************************************)
(* standardize_ingredient (src/measurement_converter.py).  Only ValueError *)
(* and SyntaxError are caught around eval; any other exception propagates. *)
(***************************************************************************)
standardize_ingredient(ing) ==
    LET parts == Split2(ing)
    IN  IF Len(parts) < 3 THEN Return(ing)
        ELSE LET e == PyEval(parts[1])
             IN  IF e.exc \in {"ValueError", "SyntaxError"} THEN Return(ing)
                 ELSE IF e.exc # "" THEN Raise(e.exc)
                 ELSE
                   LET unit  == Lower(Strip(parts[2]))
                       name0 == Strip(parts[3])
                       name1 == RemoveOf(name0, 1)
                       name2 == RemovePunctuation(name1)
                       name  == Strip(CollapseSpaces(name2))
                       formatted_amount ==
                           convert_to_fraction(e.val, DefaultMaxDenominator)
                   IN  IF formatted_amount.exc # ""
                       THEN Raise(formatted_amount.exc)
                       ELSE Return(formatted_amount.val \o " " \o unit
                                   \o " " \o name)

(***************************************************************************)
(* generate_tags (src/measurement_converter.py).                           *)
(***************************************************************************)
IGNORED_INGREDIENTS ==
    {"salt", "pepper", "flour", "sugar", "butter", "oil", "water", "milk",
     "egg", "eggs", "vanilla", "yeast", "baking soda", "baking powder",
     "cream", "parsley", "stock", "broth", "spices", "olive oil", "garlic",
     "panko", "onion", "green onions", "half and half", "carrots", "spinach"}

\* ASCII characters in code-point order (the quotes, the backslash and the
\* backquote, which no line of the model contains, are left out)
Ascii ==
    " !#$%&()*+,-./0123456789:;<=>?@ABCDEFGHIJKLMNOPQRSTUVWXYZ[]^_abcdefghijklmnopqrstuvwxyz{|}~"

Ord(c) == CHOOSE k \in 1..Len(Ascii) : Char(Ascii, k) = c

\* a < b for Python strings
RECURSIVE StrLess(_, _)
StrLess(a, b) ==
    IF Len(b) = 0 THEN FALSE
    ELSE IF Len(a) = 0 THEN TRUE
    ELSE IF Char(a, 1) = Char(b, 1)
    THEN StrLess(SubSeq(a, 2, Len(a)), SubSeq(b, 2, Len(b)))
    ELSE Ord(Char(a, 1)) < Ord(Char(b, 1))

\* sorted(S)
RECURSIVE Sorted(_)
Sorted(S) ==
    IF S = {} THEN <<>>
    ELSE LET m == CHOOSE x \in S : \A y \in S \ {x} : StrLess(x, y)
         IN  <<m>> \o Sorted(S \ {m})

\* ingredient.partition(" ")[2]: the text after the first space
AfterFirstSpace(s) ==
    LET i == FindSpace(s, 1)
    IN  IF i = 0 THEN "" ELSE SubSeq(s, i + 1, Len(s))

\* the tags one ingredient adds: a set with at most one element
TagsOf(ing) ==
    LET name == Lower(Strip(AfterFirstSpace(ing)))
    IN  IF \E ignored \in IGNORED_INGREDIENTS : Contains(name, ignored)
        THEN {}
        ELSE LET cleaned == Strip(RemovePunctuation(name))
             IN  IF cleaned # "" THEN {cleaned} ELSE {}

generate_tags(ings) ==
    Sorted(UNION {TagsOf(ings[i]) : i \in 1..Len(ings)})

(***************************************************************************)
(* Calls of standardize_ingredient, first on a line, then on what the      *)
(* first call returned.  The lines are every string over StdAlphabet up to *)
(* MaxLen, and recipe lines "<amount> <unit> <name>".                      *)
(***************************************************************************)
StdAlphabet == {"0", "1", "5", ".", "/", "o", "f", " "}

StdAmounts == {"1", "2", "1.5", "0.5", "3/2", "0.01", "0"}
StdUnits == {"cup", "Cups", "tbsp."}
StdNames == {"sugar", "of brown sugar", "salt, to taste"}

RecipeLines ==
    {a \o " " \o u \o " " \o n : a \in StdAmounts, u \in StdUnits, n \in StdNames}

InitStandardize ==
    /\ pc = "call"
    /\ ingredient \in StrsUpTo(StdAlphabet, MaxLen) \cup RecipeLines
    /\ result = <<>>
    /\ Idle

\* standardize_ingredient(ingredient)
CallStandardize ==
    /\ pc = "call"
    /\ result' = <<standardize_ingredient(ingredient)>>
    /\ pc' = "once"
    /\ UNCHANGED <<ingredient, amount, max_denominator, item_name, ingredients,
                   appVars>>

\* standardize_ingredient(standardize_ingredient(ingredient)); the outer call
\* is made only when the inner one returned
CallStandardizeAgain ==
    /\ pc = "once"
    /\ result[1].exc = ""
    /\ result' = Append(result, standardize_ingredient(result[1].val))
    /\ pc' = "twice"
    /\ UNCHANGED <<ingredient, amount, max_denominator, item_name, ingredients,
                   appVars>>

NextStandardize == CallStandardize \/ CallStandardizeAgain

SpecStandardize == InitStandardize /\ [][NextStandardize]_vars

(***************************************************************************)
(* process_recipes on one recipe: its ingredients are standardized, then   *)
(* generate_tags is called on the standardized list.                       *)
(***************************************************************************)
TagAmounts == {"1", "2"}
TagUnits == {"cup", "lb"}
TagNames == {"chicken", "flour", "Garlic", "tofu, firm"}

TagLines ==
    {a \o " " \o u \o " " \o n : a \in TagAmounts, u \in TagUnits, n \in TagNames}

RECURSIVE SeqsUpTo(_, _)
SeqsUpTo(S, n) ==
    IF n = 0 THEN {<<>>}
    ELSE LET R == SeqsUpTo(S, n - 1)
         IN  R \cup {Append(q, x) : q \in R, x \in S}

InitTags ==
    /\ pc = "call"
    /\ ingredients \in SeqsUpTo(TagLines, MaxIngredients)
    /\ result = <<>>
    /\ ingredient = ""
    /\ amount = <<0, 1>>
    /\ max_denominator = 1
    /\ item_name = ""
    /\ NoRequests
    /\ NotFetching

\* recipe["ingredients"] = [standardize_ingredient(i) for i in ...]
StandardizeAll ==
    /\ pc = "call"
    /\ \A i \in 1..Len(ingredients) :
          standardize_ingredient(ingredients[i]).exc = ""
    /\ ingredients' =
          [i \in 1..Len(ingredients) |-> standardize_ingredient(ingredients[i]).val]
    /\ pc' = "standardized"
    /\ UNCHANGED <<ingredient, amount, max_denominator, item_name, result,
                   appVars>>

\* recipe["tags"] = generate_tags(standardized_ingredients)
CallGenerateTags ==
    /\ pc = "standardized"
    /\ result' = <<generate_tags(ingredients)>>
    /\ pc' = "tagged"
    /\ UNCHANGED <<ingredient, amount, max_denominator, item_name, ingredients,
                   appVars>>

NextTags == StandardizeAll \/ CallGenerateTags

SpecTags == InitTags /\ [][NextTags]_vars

(***************************************************************************)
(* Totality, tags and idempotence.                                         *)
(***************************************************************************)
\* C2 as claimed: every call returns and none raises to the caller; on a
\* three-segment line whose amount token is no number (a word, n/0)
\* standardize_ingredient returns a fallback, the line itself.
C2_NeverRaises ==
    /\ \A k \in 1..Len(result) : result[k].exc = ""
    /\ (pc = "once" /\ ThreeSegments(ingredient)
          /\ ~IsNumberToken(AmountToken(ingredient)))
          => result[1] = Return(ingredient)

WellFormedLine(s) ==
    /\ WellFormed(s)
    /\ UnitToken(s) # ""
    /\ RestOfLine(s) # ""
    /\ Trimmed(RestOfLine(s))

\* C10 as claimed: for every well-formed line x (integer, decimal or
\* fraction amount, a unit and a name),
\* standardize_ingredient(standardize_ingredient(x)) = standardize_ingredient(x).
C10_Idempotent ==
    (pc = "twice" /\ WellFormedLine(ingredient)) => result[2] = result[1]

\* the name of a standardized line: the text after its unit
CleanName(s) == Strip(RemovePunctuation(Lower(Strip(RestOfLine(s)))))

Stoplisted(s) ==
    \E ignored \in IGNORED_INGREDIENTS : Contains(Lower(RestOfLine(s)), ignored)

\* C9 as claimed: generate_tags returns the sorted, duplicate-free names
\* (lower-cased, punctuation stripped, without amount and unit) of the
\* standardized ingredients whose name contains no stoplisted term.
C9_TagsAreNamesOnly ==
    pc = "tagged"
        => LET names == {CleanName(ingredients[i]) :
                            i \in {j \in 1..Len(ingredients) :
                                      ~Stoplisted(ingredients[j])}} \ {""}
           IN  /\ {result[1][k] : k \in 1..Len(result[1])} = names
               /\ Len(result[1]) = Cardinality(names)
               /\ \A k \in 1..(Len(result[1]) - 1) :
                     StrLess(result[1][k], result[1][k + 1])

(***************************************************************************)
(* The shopping-list routes of src/app.py.  A request is one action: the   *)
(* handler runs to its commit.  current_user is the user of the session    *)
(* (0: not logged in).                                                     *)
(***************************************************************************)
ShoppingItem(name, quantity, unit, category, user_id) ==
    [name |-> name, quantity |-> quantity, unit |-> unit,
     category |-> category, user_id |-> user_id]

Addition(user, name, unit, quantity) ==
    [user |-> user, name |-> name, unit |-> unit, quantity |-> quantity]

\* the rows the POST branch adds for the ingredient lines ings, for user u
RECURSIVE ItemsOf(_, _)
ItemsOf(ings, u) ==
    IF Len(ings) = 0 THEN <<>>
    ELSE LET t == split_ingredient(ings[1])
         IN  <<ShoppingItem(t[3], t[1], t[2], get_category(t[3]), u)>>
             \o ItemsOf(Tail(ings), u)

\* the rows the POST branch adds for each recipe of recipes.json and each user
RecipeRows ==
    [r \in RecipeIds |-> [u \in Users |-> ItemsOf(Recipes[r + 1], u)]]

\* ShoppingItem.id: SQLite gives an INTEGER PRIMARY KEY the largest id of the
\* table plus one, and the rows are kept in insertion order
LastId(table) == IF Len(table) = 0 THEN 0 ELSE table[Len(table)].id

\* the rows as the session inserts them, each with its primary key
WithIds(rows, last) ==
    [k \in 1..Len(rows) |-> rows[k] @@ [id |-> last + k]]

RECURSIVE AdditionsOf(_)
AdditionsOf(rows) ==
    IF Len(rows) = 0 THEN <<>>
    ELSE <<Addition(rows[1].user_id, rows[1].name, rows[1].unit,
                    rows[1].quantity)>> \o AdditionsOf(Tail(rows))

Init ==
    /\ pc = "idle"
    /\ ingredient = ""
    /\ amount = <<0, 1>>
    /\ max_denominator = 1
    /\ item_name = ""
    /\ ingredients = <<>>
    /\ result = <<>>
    /\ NoRequests
    /\ NotFetching

\* GET or POST /recipe/<recipe_id>; a recipe_id that load_recipes does not
\* hold is answered by a redirect before anything is written
recipe_details(recipe_id, method, current_user) ==
    /\ recipe_id \in RecipeIds
    /\ view_count[recipe_id] < MaxViews
    /\ view_count' = [view_count EXCEPT ![recipe_id] = @ + 1]
    /\ IF method = "POST" /\ current_user \in Users
       THEN LET rows == RecipeRows[recipe_id][current_user]
            IN  /\ Len(additions) + Len(rows) <= MaxItems
                /\ shopping_items' =
                      shopping_items \o WithIds(rows, LastId(shopping_items))
                /\ additions' = additions \o AdditionsOf(rows)
                /\ ready_to_cook_ids' =
                      IF \E k \in 1..Len(ready_to_cook_ids[current_user]) :
                            ready_to_cook_ids[current_user][k] = recipe_id
                      THEN ready_to_cook_ids
                      ELSE [ready_to_cook_ids EXCEPT ![current_user] =
                               Append(@, recipe_id)]
       ELSE UNCHANGED <<shopping_items, additions, ready_to_cook_ids>>
    /\ UNCHANGED callVars

CustomNames == {"", "milk"}
CustomCategories == {"Other", "Dairy/Refrigerated"}

\* POST /add-custom-item (login required)
add_custom_item(name, category, current_user) ==
    /\ current_user \in Users
    /\ IF name # ""
       THEN LET row == ShoppingItem(name, <<1, 1>>, "pc", category, current_user)
            IN  /\ Len(additions) < MaxItems
                /\ shopping_items' =
                      shopping_items \o WithIds(<<row>>, LastId(shopping_items))
                /\ additions' = additions \o AdditionsOf(<<row>>)
       ELSE UNCHANGED <<shopping_items, additions>>
    /\ UNCHANGED <<ready_to_cook_ids, view_count>>
    /\ UNCHANGED callVars

Next ==
    \/ \E r \in RecipeIds, m \in {"GET", "POST"}, u \in Users \cup {0} :
          recipe_details(r, m, u)
    \/ \E n \in CustomNames, c \in CustomCategories, u \in Users :
          add_custom_item(n, c, u)

Spec == Init /\ [][Next]_vars

(***************************************************************************)
(* The shopping list as the sum of what was added.                         *)
(***************************************************************************)
AddQ(a, b) == Frac(Num(a) * Den(b) + Num(b) * Den(a), Den(a) * Den(b))

\* the sum of the quantities added by user u for the pair (name, unit)
RECURSIVE SumAdded(_, _, _, _)
SumAdded(hist, u, name, unit) ==
    IF Len(hist) = 0 THEN <<0, 1>>
    ELSE AddQ(IF hist[1].user = u /\ hist[1].name = name /\ hist[1].unit = unit
              THEN hist[1].quantity ELSE <<0, 1>>,
              SumAdded(Tail(hist), u, name, unit))

\* C1 as claimed: the persisted list of a user holds at most one entry per
\* (name, unit), and it carries the sum of every quantity added for the pair.
C1_OneEntryPerNameUnit ==
    \A i \in 1..Len(shopping_items) :
        LET row == shopping_items[i]
        IN  /\ \A j \in 1..Len(shopping_items) :
                  (/\ shopping_items[j].user_id = row.user_id
                   /\ shopping_items[j].name = row.name
                   /\ shopping_items[j].unit = row.unit) => j = i
            /\ row.quantity = SumAdded(additions, row.user_id, row.name, row.unit)

(***************************************************************************)
(* Removing from the shopping list.  pc and result keep the last request   *)
(* to delete or clear and the response it got: the user of the session,    *)
(* the item id asked for and the HTTP status.                              *)
(***************************************************************************)
ItemIds == 1..MaxItems

Response(current_user, item_id, status) ==
    [user |-> current_user, item_id |-> item_id, status |-> status]

\* POST /delete-item/<item_id> that deletes the row whoever owns it
delete_item_any_owner(item_id, current_user) ==
    /\ current_user \in Users
    /\ pc' = "delete_item"
    /\ IF \E k \in 1..Len(shopping_items) : shopping_items[k].id = item_id
       THEN /\ LET NotIt(row) == row.id # item_id
               IN  shopping_items' = SelectSeq(shopping_items, NotIt)
            /\ result' = <<Response(current_user, item_id, 302)>>
       ELSE /\ result' = <<Response(current_user, item_id, 404)>>
            /\ UNCHANGED shopping_items
    /\ UNCHANGED <<ready_to_cook_ids, view_count, additions>>
    /\ UNCHANGED <<ingredient, amount, max_denominator, item_name, ingredients>>
    /\ UNCHANGED fetchVars

\* POST /delete-item/<item_id> (login required): get_or_404, then the row is
\* deleted only if the user of the session owns it
delete_item(item_id, current_user) ==
    /\ current_user \in Users
    /\ pc' = "delete_item"
    /\ IF \E k \in 1..Len(shopping_items) : shopping_items[k].id = item_id
       THEN /\ LET item == CHOOSE row \in {shopping_items[k] :
                                              k \in 1..Len(shopping_items)} :
                              row.id = item_id
                   NotIt(row) == row.id # item_id
               IN  IF item.user_id = current_user
                   THEN shopping_items' = SelectSeq(shopping_items, NotIt)
                   ELSE UNCHANGED shopping_items
            /\ result' = <<Response(current_user, item_id, 302)>>
       ELSE /\ result' = <<Response(current_user, item_id, 404)>>
            /\ UNCHANGED shopping_items
    /\ UNCHANGED <<ready_to_cook_ids, view_count, additions>>
    /\ UNCHANGED <<ingredient, amount, max_denominator, item_name, ingredients>>
    /\ UNCHANGED fetchVars

\* POST /clear-list (login required)
clear_list(current_user) ==
    /\ current_user \in Users
    /\ pc' = "clear_list"
    /\ LET NotMine(row) == row.user_id # current_user
       IN  shopping_items' = SelectSeq(shopping_items, NotMine)
    /\ result' = <<Response(current_user, 0, 302)>>
    /\ UNCHANGED <<ready_to_cook_ids, view_count, additions>>
    /\ UNCHANGED <<ingredient, amount, max_denominator, item_name, ingredients>>
    /\ UNCHANGED fetchVars

NextList ==
    \/ \E r \in RecipeIds, m \in {"GET", "POST"}, u \in Users \cup {0} :
          recipe_details(r, m, u)
    \/ \E n \in CustomNames, c \in CustomCategories, u \in Users :
          add_custom_item(n, c, u)
    \/ \E i \in ItemIds, u \in Users : delete_item(i, u)
    \/ \E u \in Users : clear_list(u)

SpecList == Init /\ [][NextList]_vars

(***************************************************************************)
(* Each user's list is their own.                                          *)
(***************************************************************************)
\* the rows of the table that user u owns
ItemsOwnedBy(u) ==
    {shopping_items[k] : k \in {j \in 1..Len(shopping_items) :
                                   shopping_items[j].user_id = u}}

\* the step is a request of the session of user a (0: nobody logged in)
RequestBy(a) ==
    \/ \E r \in RecipeIds, m \in {"GET", "POST"} : recipe_details(r, m, a)
    \/ \E n \in CustomNames, c \in CustomCategories : add_custom_item(n, c, a)
    \/ \E i \in ItemIds : delete_item(i, a)
    \/ clear_list(a)

\* C11: whatever the interleaving of the requests of several users, a request
\* of user A leaves the set of shopping items owned by every other user B as
\* it was: delete_item on an item of B removes nothing and clear_list by A
\* removes only the items of A.
C11_OthersItemsUnchanged ==
    [][\A b \in Users :
          \/ ItemsOwnedBy(b)' = ItemsOwnedBy(b)
          \/ \A a \in (Users \cup {0}) \ {b} : ~RequestBy(a)]_vars

\* C11 happens: the last request to delete named an item that exists and
\* that another user owns, after both users had added to their lists, and
\* the item is still there.
C11_Witness ==
    /\ pc = "delete_item"
    /\ result[1].status = 302
    /\ \E k \in 1..Len(shopping_items) :
          /\ shopping_items[k].id = result[1].item_id
          /\ shopping_items[k].user_id # result[1].user
    /\ ItemsOwnedBy(result[1].user) # {}

(***************************************************************************)
(* save_recipes_to_file of src/fetch_recipes.py.  A recipe enters the loop *)
(* only through len(), so a list of recipes is modelled by its length.     *)
(* pc is the position in the function: "start", "while" (the loop test),  *)
(* "fetched" (fetch_recipes has returned), "returned", "raised".           *)
(***************************************************************************)
Min(a, b) == IF a <= b THEN a ELSE b

\* what the script does not touch: the normalizer calls and the database
notFetchVars == <<ingredient, amount, max_denominator, item_name, ingredients,
                  result, shopping_items, ready_to_cook_ids, view_count,
                  additions>>

\* what requests.get can answer to a request for number recipes: status 200
\* with at most number recipes, or another status, for which fetch_recipes
\* returns the empty list
fetch_recipes(number) == 0..number

InitFetch ==
    /\ pc = "start"
    /\ total_recipes \in 0..MaxTotal
    /\ batch_size \in 1..MaxBatch
    /\ recipes_json \in -1..MaxExisting
    /\ all_recipes = 0
    /\ remaining = 0
    /\ recipes = 0
    /\ ingredient = ""
    /\ amount = <<0, 1>>
    /\ max_denominator = 1
    /\ item_name = ""
    /\ ingredients = <<>>
    /\ result = <<>>
    /\ NoRequests

\* lines 67-76: the list starts from the file, or empty if the file is
\* missing or is not JSON
ReadExisting ==
    /\ pc = "start"
    /\ all_recipes' = (IF recipes_json = -1 THEN 0 ELSE recipes_json)
    /\ remaining' = total_recipes - all_recipes'
    /\ pc' = "while"
    /\ UNCHANGED <<total_recipes, batch_size, recipes, recipes_json>>
    /\ UNCHANGED notFetchVars

\* line 78, the test fails: the function returns
ExitLoop ==
    /\ pc = "while"
    /\ ~(remaining > 0)
    /\ pc' = "returned"
    /\ UNCHANGED fetchVars
    /\ UNCHANGED notFetchVars

\* lines 78-80: the test holds, the batch is cut to what remains and fetched;
\* requests.get may also raise, which nothing catches
FetchBatch ==
    /\ pc = "while"
    /\ remaining > 0
    /\ batch_size' = Min(batch_size, remaining)
    /\ \/ /\ recipes' \in fetch_recipes(batch_size')
          /\ pc' = "fetched"
       \/ /\ recipes' = recipes
          /\ pc' = "raised"
    /\ UNCHANGED <<total_recipes, all_recipes, remaining, recipes_json>>
    /\ UNCHANGED notFetchVars

\* lines 81-89: the batch is appended, the file rewritten, remaining counted
\* down by the size of the batch
SaveBatch ==
    /\ pc = "fetched"
    /\ all_recipes' = all_recipes + recipes
    /\ recipes_json' = all_recipes'
    /\ remaining' = remaining - recipes
    /\ pc' = "while"
    /\ UNCHANGED <<total_recipes, batch_size, recipes>>
    /\ UNCHANGED notFetchVars

NextFetch ==
    \/ ReadExisting
    \/ ExitLoop
    \/ FetchBatch
    \/ SaveBatch

\* the script runs on: a step that can be taken is taken.  Nothing is assumed
\* of the answers of the API.
SpecFetch == InitFetch /\ [][NextFetch]_vars /\ WF_vars(NextFetch)

\* C12 as claimed: save_recipes_to_file eventually leaves its loop, whatever
\* the fetch collaborator answers (failed fetches and short batches included).
C12_Terminates == <>(pc \in {"returned", "raised"})

====
